---- MODULE Spec2Model ----
(***************************************************************************)
(* Model of pubsub/redis.go: the RedisSubscriber of anycable-go.            *)
(*                                                                         *)
(* Start (the reconnect supervisor) and listen (one session) run on one    *)
(* thread, whose position is pc.  Every session that subscribes starts a   *)
(* receive goroutine, which outlives listen; goroutines and their done     *)
(* channels are indexed by the number of the live session.  The redis      *)
(* connection, the ticker and the handler node.HandlePubsub are the        *)
(* environment: the outcome of a dial, a subscribe, a ping and a Receive   *)
(* is chosen nondeterministically.                                         *)
(***************************************************************************)
EXTENDS Integers, Sequences, FiniteSets

(* ------------------------------ bounds -------------------------------- *)

\* listen calls over the life of the subscriber
MaxSessions == 6
\* sessions over the life of the subscriber whose Subscribe succeeds
MaxLive == 1
\* message events Receive yields over the life of the subscriber
MaxMessages == 2
\* largest attempt count the backoff calculator is applied to on its own
MaxStep == 8

(* ------------------------- program constants -------------------------- *)

\* redis.go:17
maxReconnectAttempts == 5

\* redis.go:154  done := make(chan error, 1)
doneCapacity == 1

\* the configured connection strings: a well-formed one and "not a url \x00"
URLs == {"redis://localhost:6379/5", "not a url \\x00"}

\* url.Parse (redis.go:51) rejects a string holding a control character
ParseFails(u) == u = "not a url \\x00"

(* ------------------------------ errors -------------------------------- *)

\* error values; n tells the first error event of a receive goroutine (1) from
\* its later ones (2)
Err(kind, n) == [kind |-> kind, n |-> n]
NoErr == Err("nil", 0)

VARIABLES
    url,               \* s.url
    sentinelsEnabled,  \* s.sentinelsEnabled
    reconnectAttempt,  \* s.reconnectAttempt
    pc,                \* position of the thread running Start and listen
    startResult,       \* what the latest call of Start returned
    err,               \* the variable err of the running listen (redis.go:80)
    lret,              \* the err of redis.go:58: the value listen returned to Start
    conn,              \* the connection c of the current session
    session,           \* number of listen calls so far
    live,              \* number of sessions that subscribed so far; the latest of
                       \* them is the one the done channel and goroutine index
    dialOnly,          \* every session so far ended in a dial error
    subscribed,        \* the current session's Subscribe succeeded
    unsubscribed,      \* the current session issued psc.Unsubscribe()
    done,              \* done[l]: content of the done channel of live session l
    goroutine,         \* goroutine[l]: the receive goroutine of live session l
    tickerRunning,     \* the current session's ticker is started and not stopped
    tickPending,       \* a tick waits in ticker.C
    delay,             \* the delay Start sleeps for, in seconds
    received,          \* message events Receive yielded: <<live session, payload>>
    handled,           \* calls of node.HandlePubsub: <<live session, payload>>
    sessLog,           \* ended sessions, in order
    doneWrites,        \* doneWrites[l]: values written to done of live session l
    doneReads,         \* doneReads[l]: values read from done of live session l
    started,           \* Start has been called
    firstCall,         \* the latest call of Start is the first one
    callListens,       \* listen calls in the current call of Start
    callSleeps,        \* backoff sleeps in the current call of Start
    entryAttempt,      \* reconnectAttempt when the current call of Start began
    connRole,          \* the role of the server the connection c reaches
    pool,              \* the redis.Pool of the current session (sentinel mode)
    sntnl,             \* the sentinel client of the current session (sentinel mode)
    openConns,         \* connections obtained by listen and not closed yet
    confirmed          \* Receive has yielded a subscription event in the
                       \* current session

vars == <<url, sentinelsEnabled, reconnectAttempt, pc, startResult, err, lret,
          conn, session, live, dialOnly, subscribed, unsubscribed, done, goroutine,
          tickerRunning, tickPending, delay, received, handled, sessLog,
          doneWrites, doneReads, started, firstCall, callListens, callSleeps,
          entryAttempt, connRole, pool, sntnl, openConns, confirmed>>

config == <<url, sentinelsEnabled>>
sessVars == <<session, live, subscribed, unsubscribed>>
logs == <<received, handled>>
chans == <<done, doneWrites, doneReads>>
callStats == <<started, firstCall, callListens, callSleeps, entryAttempt>>
tickerVars == <<tickerRunning, tickPending>>
resources == <<connRole, pool, sntnl, openConns>>

Lives == 1..MaxLive

\* a goroutine: where it is, the payload it holds, the number of its latest error
NoGoroutine == [pc |-> "none", ev |-> 0, nerr |-> 0]

\* the positions of listen between a successful subscribe and its return
LivePcs == {"select", "unsubscribe", "wait"}

(* ------------------------- NewRedisSubscriber -------------------------- *)

\* redis.go:34-46
Init ==
    /\ url \in URLs
    /\ sentinelsEnabled \in BOOLEAN
    /\ reconnectAttempt = 0
    /\ pc = "idle"
    /\ startResult = "none"
    /\ err = NoErr
    /\ lret = NoErr
    /\ conn = "none"
    /\ session = 0
    /\ live = 0
    /\ dialOnly = TRUE
    /\ subscribed = FALSE
    /\ unsubscribed = FALSE
    /\ done = [l \in Lives |-> <<>>]
    /\ goroutine = [l \in Lives |-> NoGoroutine]
    /\ tickerRunning = FALSE
    /\ tickPending = FALSE
    /\ delay = 0
    /\ received = <<>>
    /\ handled = <<>>
    /\ sessLog = <<>>
    /\ doneWrites = [l \in Lives |-> 0]
    /\ doneReads = [l \in Lives |-> 0]
    /\ started = FALSE
    /\ firstCall = FALSE
    /\ callListens = 0
    /\ callSleeps = 0
    /\ entryAttempt = 0
    /\ connRole = "none"
    /\ pool = "none"
    /\ sntnl = "none"
    /\ openConns = 0
    /\ confirmed = FALSE

(* ------------------------------- Start -------------------------------- *)

\* a caller invokes s.Start() (redis.go:49)
StartCall ==
    /\ pc = "idle"
    /\ pc' = "parse"
    /\ started' = TRUE
    /\ firstCall' = ~started
    /\ callListens' = 0
    /\ callSleeps' = 0
    /\ entryAttempt' = reconnectAttempt
    /\ startResult' = "none"
    /\ UNCHANGED <<config, resources, confirmed, reconnectAttempt, err, lret, conn,
                   sessVars, dialOnly, chans, goroutine, tickerVars, delay, logs,
                   sessLog>>

\* the parse error is dropped and Start goes on to its loop
OnParseErrorIgnored == "listen"

\* redis.go:53-55: where Start goes when url.Parse returned an error
OnParseError == "idle"

\* redis.go:51-55
ParseURL ==
    /\ pc = "parse"
    /\ IF ParseFails(url)
          THEN /\ pc' = OnParseError
               /\ startResult' = IF pc' = "idle" THEN "parse error" ELSE startResult
          ELSE /\ pc' = "listen"
               /\ UNCHANGED startResult
    /\ UNCHANGED <<config, resources, confirmed, reconnectAttempt, err, lret, conn,
                   sessVars, dialOnly, chans, goroutine, tickerVars, delay, logs,
                   sessLog, callStats>>

\* the counter is incremented twice for one session
IncrementTwice(n) == n + 2

\* redis.go:62
Increment(n) == n + 1

\* redis.go:58-62: the error is logged and the counter incremented; nothing
\* is left of the session that ended (its c, its Unsubscribe, its confirmation)
CountAttempt ==
    /\ pc = "incr"
    /\ reconnectAttempt' = Increment(reconnectAttempt)
    /\ sessLog' = Append(sessLog, [sub |-> subscribed, after |-> reconnectAttempt'])
    /\ lret' = NoErr
    /\ unsubscribed' = FALSE
    /\ confirmed' = FALSE
    /\ conn' = "none"
    /\ pc' = "check"
    /\ UNCHANGED <<config, resources, startResult, err, session,
                   live, subscribed, dialOnly, chans, goroutine, tickerVars, delay,
                   logs, callStats>>

\* the ceiling is taken one attempt too early
ExceededEarly(n) == n >= maxReconnectAttempts - 1

\* the ceiling is compared with > where the code has >=
ExceededOffByOne(n) == n > maxReconnectAttempts

\* redis.go:64
Exceeded(n) == n >= maxReconnectAttempts

\* redis.go:64-66
ReturnExceeded ==
    /\ pc = "check"
    /\ Exceeded(reconnectAttempt)
    /\ pc' = "idle"
    /\ startResult' = "exceeded"
    /\ UNCHANGED <<config, resources, confirmed, reconnectAttempt, err, lret, conn,
                   sessVars, dialOnly, chans, goroutine, tickerVars, delay, logs,
                   sessLog, callStats>>

\* a draw that can reach n itself
RandIntnInclusive(n) == 0..n

\* rand.Intn(n) (redis.go:193): the values the draw can take
RandIntn(n) == 0..(n - 1)

\* the delay is computed on the attempt count before its increment
nextRetryPrev(step, r) == ((step - 1) * (step - 1)) + (r * step)

\* redis.go:192-195, with r the value rand.Intn(step*4) drew; in seconds
nextRetry(step, r) == (step * step) + (r * (step + 1))

\* redis.go:68-71
ComputeDelay ==
    /\ pc = "check"
    /\ ~Exceeded(reconnectAttempt)
    /\ \E r \in RandIntn(reconnectAttempt * 4) :
          delay' = nextRetry(reconnectAttempt, r)
    /\ pc' = "sleep"
    /\ callSleeps' = callSleeps + 1
    /\ UNCHANGED <<config, resources, confirmed, reconnectAttempt, startResult, err,
                   lret, conn, sessVars, dialOnly, chans, goroutine, tickerVars,
                   logs, sessLog, started, firstCall, callListens, entryAttempt>>

\* redis.go:71-74: time.Sleep(delay) is over
Sleep ==
    /\ pc = "sleep"
    /\ pc' = "listen"
    /\ delay' = 0
    /\ UNCHANGED <<config, resources, confirmed, reconnectAttempt, startResult, err,
                   lret, conn, sessVars, dialOnly, chans, goroutine, tickerVars,
                   logs, sessLog, callStats>>

(* ------------------------------- listen ------------------------------- *)

\* the ticker is not stopped when listen returns
TickerLeftRunning(running) == running

\* redis.go:173: the deferred ticker.Stop() leaves the ticker stopped
TickerAfterReturn(running) == FALSE

\* the connection is left as it is when listen returns
ConnLeftOpen(c) == c

\* redis.go:144: the deferred c.Close() closes the connection listen obtained
ConnAfterReturn(c) == IF c = "none" THEN "none" ELSE "closed"

\* redis.go:132: the deferred pool.Close() releases the pool listen built
PoolAfterReturn(p) == IF p = "none" THEN "none" ELSE "closed"

\* redis.go:104: the deferred sntnl.Close() releases the sentinel client
SntnlAfterReturn(s) == IF s = "none" THEN "none" ELSE "closed"

\* a connection listen obtained (redis.go:134, 137) and has not closed
Held(c) == c \in {"open", "failed"}

\* the number of held connections, n before, once connection c has become d
HeldAfter(n, c, d) == IF Held(c) /\ ~Held(d) THEN n - 1 ELSE n

\* redis.go:144: the deferred c.Close() runs as listen returns
CloseConn ==
    /\ conn' = ConnAfterReturn(conn)
    /\ openConns' = HeldAfter(openConns, conn, conn')

\* listen returns e to Start (redis.go:58): the deferred calls run, and err,
\* c and the ticker's channel go with listen's frame
ListenReturn(e) ==
    /\ lret' = e
    /\ pc' = "incr"
    /\ tickerRunning' = TickerAfterReturn(tickerRunning)
    /\ tickPending' = FALSE
    /\ dialOnly' = (dialOnly /\ e.kind = "dial")
    /\ err' = NoErr
    /\ pool' = PoolAfterReturn(pool)
    /\ sntnl' = SntnlAfterReturn(sntnl)
    /\ connRole' = "none"

\* the roles of the server a dial to the address the sentinels gave can reach:
\* the primary, or an instance that is a replica by the time it is used
Roles == {"master", "replica"}

\* redis.go:123-129: TestOnBorrow passes for a connection whose server has the
\* role master
TestOnBorrow(role) == role = "master"

\* redis.go:106-130: the pool is built within listen, so that at the one Get of
\* redis.go:134 it holds no idle connection
NewPoolIdle == <<>>

\* pool.Get() (redis.go:134) of a redis.Pool whose idle connections have the
\* roles idle, when a dial reaches a server of role dialled: an idle connection
\* is handed out when it passes TestOnBorrow and is dropped when it fails; with
\* none left the pool dials and hands out the new connection, to which
\* TestOnBorrow is not applied
RECURSIVE PoolGet(_, _)
PoolGet(idle, dialled) ==
    IF idle = <<>> THEN dialled
    ELSE IF TestOnBorrow(Head(idle)) THEN Head(idle)
         ELSE PoolGet(Tail(idle), dialled)

\* redis.go:77-144: listen is entered and obtains the connection
Connect ==
    /\ pc = "listen"
    /\ session < MaxSessions
    /\ session' = session + 1
    /\ callListens' = callListens + 1
    /\ subscribed' = FALSE
    /\ unsubscribed' = FALSE
    /\ IF sentinelsEnabled
          THEN \* pool.Get() returns a connection, or one that fails every call
               /\ \/ /\ conn' = "open"
                     /\ \E dialled \in Roles :
                           connRole' = PoolGet(NewPoolIdle, dialled)
                  \/ /\ conn' = "failed"
                     /\ connRole' = "none"
               /\ sntnl' = "open"
               /\ pool' = "open"
               /\ openConns' = openConns + 1
               /\ pc' = "subscribe"
               /\ UNCHANGED <<err, lret, tickerVars, dialOnly>>
          ELSE \/ /\ conn' = "open"
                  /\ openConns' = openConns + 1
                  /\ pc' = "subscribe"
                  /\ UNCHANGED <<err, lret, tickerVars, dialOnly, connRole,
                                 pool, sntnl>>
               \/ /\ conn' = "none"
                  /\ ListenReturn(Err("dial", 0))
                  /\ UNCHANGED openConns
    /\ UNCHANGED <<config, confirmed, reconnectAttempt, startResult, live, chans,
                   goroutine, delay, logs, sessLog, started, firstCall,
                   callSleeps, entryAttempt>>

\* the counter is reset before the error of Subscribe is looked at
SubscribeFailResets ==
    /\ pc = "subscribe"
    /\ ListenReturn(Err("subscribe", 0))
    /\ CloseConn
    /\ reconnectAttempt' = 0
    /\ UNCHANGED <<config, confirmed, startResult, sessVars, chans, goroutine,
                   delay, logs, sessLog, callStats>>

\* redis.go:147-150
SubscribeFail ==
    /\ pc = "subscribe"
    /\ ListenReturn(Err("subscribe", 0))
    /\ CloseConn
    /\ UNCHANGED <<config, confirmed, reconnectAttempt, startResult, sessVars, chans,
                   goroutine, delay, logs, sessLog, callStats>>

\* the counter is not reset on a successful subscribe
KeepAttempt(n) == n

\* redis.go:152
ResetAttempt(n) == 0

\* redis.go:146-173: Subscribe succeeded; the counter is reset, the done channel
\* made, the receive goroutine and the ticker started
SubscribeOK ==
    /\ pc = "subscribe"
    /\ conn = "open"
    /\ live < MaxLive
    /\ live' = live + 1
    /\ reconnectAttempt' = ResetAttempt(reconnectAttempt)
    /\ subscribed' = TRUE
    /\ done' = [done EXCEPT ![live'] = <<>>]
    /\ goroutine' = [goroutine EXCEPT ![live'] = [pc |-> "recv", ev |-> 0, nerr |-> 0]]
    /\ tickerRunning' = TRUE
    /\ tickPending' = FALSE
    /\ pc' = "select"
    /\ UNCHANGED <<config, resources, confirmed, startResult, err, lret, conn,
                   session, unsubscribed, dialOnly, doneWrites, doneReads, delay,
                   logs, sessLog, callStats>>

\* time.NewTicker (redis.go:172): the ticker delivers a tick on ticker.C, which
\* holds one
Tick ==
    /\ tickerRunning
    /\ ~tickPending
    /\ tickPending' = TRUE
    /\ UNCHANGED <<config, resources, confirmed, reconnectAttempt, pc, startResult,
                   err, lret, conn, sessVars, dialOnly, chans, goroutine,
                   tickerRunning, delay, logs, sessLog, callStats>>

\* redis.go:176-181: the tick is taken and the ping succeeds
PingOK ==
    /\ pc = "select"
    /\ err = NoErr
    /\ tickPending
    /\ conn = "open"
    /\ tickPending' = FALSE
    /\ UNCHANGED <<config, resources, confirmed, reconnectAttempt, pc, startResult,
                   err, lret, conn, sessVars, dialOnly, chans, goroutine,
                   tickerRunning, delay, logs, sessLog, callStats>>

\* redis.go:176-181: the tick is taken and the ping fails, which leaves the
\* connection broken
PingFail ==
    /\ pc = "select"
    /\ err = NoErr
    /\ tickPending
    /\ tickPending' = FALSE
    /\ err' = Err("ping", 0)
    /\ conn' = "failed"
    /\ pc' = "unsubscribe"
    /\ UNCHANGED <<config, resources, confirmed, reconnectAttempt, startResult,
                   lret, sessVars, dialOnly, chans, goroutine, tickerRunning, delay,
                   logs, sessLog, callStats>>

\* <-done: a value is read from the done channel of the session, and listen
\* returns
ReadDone ==
    /\ Len(done[live]) > 0
    /\ done' = [done EXCEPT ![live] = Tail(@)]
    /\ doneReads' = [doneReads EXCEPT ![live] = @ + 1]
    /\ CloseConn

\* case err = <-done followed by a return of the err of redis.go:80 as it was
SelectDoneOuterErr(v, outer) == outer

\* redis.go:182-184: case err := <-done declares a new err, which is returned;
\* v is the value read and outer the err of redis.go:80
SelectDoneResult(v, outer) == v

\* redis.go:176-177, 182-184
SelectDone ==
    /\ pc = "select"
    /\ err = NoErr
    /\ ReadDone
    /\ ListenReturn(SelectDoneResult(Head(done[live]), err))
    /\ UNCHANGED <<config, confirmed, reconnectAttempt, startResult, sessVars,
                   doneWrites, goroutine, delay, logs, sessLog, callStats>>

\* redis.go:188
Unsubscribe ==
    /\ pc = "unsubscribe"
    /\ unsubscribed' = TRUE
    /\ pc' = "wait"
    /\ UNCHANGED <<config, resources, confirmed, reconnectAttempt, startResult, err,
                   lret, conn, session, live, subscribed, dialOnly, chans,
                   goroutine, tickerVars, delay, logs, sessLog, callStats>>

\* redis.go:189
WaitDone ==
    /\ pc = "wait"
    /\ ReadDone
    /\ ListenReturn(Head(done[live]))
    /\ UNCHANGED <<config, confirmed, reconnectAttempt, startResult, sessVars,
                   doneWrites, goroutine, delay, logs, sessLog, callStats>>

(* ------------------------ the receive goroutine ------------------------ *)

\* the connection of live session l still delivers events: listen has not
\* returned and closed it (redis.go:144), and no ping on it has failed
ConnOpen(l) == l = live /\ pc \in LivePcs /\ conn = "open"

threadVars == <<config, resources, reconnectAttempt, pc, startResult, err, lret, conn,
                sessVars, dialOnly, tickerVars, delay, sessLog, callStats>>

\* the payload of the next message published on the channel: the messages are
\* numbered, so that no two carry the same payload
NextPayload == Len(received) + 1

\* redis.go:158-159: Receive yields a message
ReceiveMessage(l) ==
    /\ goroutine[l].pc = "recv"
    /\ ConnOpen(l)
    /\ Len(received) < MaxMessages
    /\ received' = Append(received, <<l, NextPayload>>)
    /\ goroutine' = [goroutine EXCEPT ![l].pc = "message", ![l].ev = NextPayload]
    /\ UNCHANGED <<threadVars, chans, handled, confirmed>>

\* redis.go:161: what s.node.HandlePubsub is called with for message data v
HandlePubsubArg(v) == v

\* redis.go:160-161
HandleMessage(l) ==
    /\ goroutine[l].pc = "message"
    /\ handled' = Append(handled, <<l, HandlePubsubArg(goroutine[l].ev)>>)
    /\ goroutine' = [goroutine EXCEPT ![l].pc = "recv", ![l].ev = 0]
    /\ UNCHANGED <<threadVars, chans, received, confirmed>>

\* redis.go:158, 162: Receive yields a subscription event
ReceiveSubscription(l) ==
    /\ goroutine[l].pc = "recv"
    /\ ConnOpen(l)
    /\ goroutine' = [goroutine EXCEPT ![l].pc = "subscription"]
    /\ confirmed' = TRUE
    /\ UNCHANGED <<threadVars, chans, logs>>

\* a subscription event is handed to the handler too
OnSubscriptionHandled(l) == << <<l, 0>> >>

\* redis.go:162-163: the handler calls a subscription event causes: none
OnSubscription(l) == <<>>

\* redis.go:162-163
LogSubscription(l) ==
    /\ goroutine[l].pc = "subscription"
    /\ handled' = handled \o OnSubscription(l)
    /\ goroutine' = [goroutine EXCEPT ![l].pc = "recv"]
    /\ UNCHANGED <<threadVars, chans, received, confirmed>>

\* the number an error event gets, after n earlier ones: 1 for the first error
\* of a goroutine, 2 for every later one
NextErrNo(n) == IF n = 0 THEN 1 ELSE 2

\* redis.go:158, 164: Receive yields an error
ReceiveError(l) ==
    /\ goroutine[l].pc = "recv"
    /\ goroutine' = [goroutine EXCEPT ![l].pc = "error", ![l].nerr = NextErrNo(@)]
    /\ UNCHANGED <<threadVars, chans, logs, confirmed>>

\* redis.go:167-169: break leaves the switch, not the for loop
AfterBreak == "recv"

\* the error is logged and never sent on done
SendDoneDropped(l) ==
    /\ goroutine[l].pc = "error"
    /\ goroutine' = [goroutine EXCEPT ![l].pc = AfterBreak]
    /\ UNCHANGED <<threadVars, chans, logs, confirmed>>

\* redis.go:165-167: done <- v, which blocks while the channel is full
SendDone(l) ==
    /\ goroutine[l].pc = "error"
    /\ Len(done[l]) < doneCapacity
    /\ done' = [done EXCEPT ![l] = Append(@, Err("receive", goroutine[l].nerr))]
    /\ doneWrites' = [doneWrites EXCEPT ![l] = @ + 1]
    /\ goroutine' = [goroutine EXCEPT ![l].pc = AfterBreak]
    /\ UNCHANGED <<threadVars, doneReads, logs, confirmed>>

\* redis.go:156-170
Goroutine(l) ==
    \/ ReceiveMessage(l)
    \/ HandleMessage(l)
    \/ ReceiveSubscription(l)
    \/ LogSubscription(l)
    \/ ReceiveError(l)
    \/ SendDone(l)

(* --------------------------- specification ---------------------------- *)

Next ==
    \/ StartCall
    \/ ParseURL
    \/ Connect
    \/ SubscribeFail
    \/ SubscribeOK
    \/ Tick
    \/ PingOK
    \/ PingFail
    \/ SelectDone
    \/ Unsubscribe
    \/ WaitDone
    \/ CountAttempt
    \/ ReturnExceeded
    \/ ComputeDelay
    \/ Sleep
    \/ \E l \in Lives : Goroutine(l)

Spec == Init /\ [][Next]_vars

\* the steps listen takes once its done channel holds a value or a ping has
\* failed: select takes the done case when it stays ready (redis.go:182), and
\* redis.go:188-189 run
ListenProgress == SelectDone \/ Unsubscribe \/ WaitDone

\* the steps the receive goroutine of live session l takes by itself; Receive
\* on a connection that is closed or broken returns, with an error
GoroutineProgress(l) ==
    \/ HandleMessage(l)
    \/ LogSubscription(l)
    \/ SendDone(l)
    \/ ReceiveError(l) /\ ~ConnOpen(l)

\* The scheduling of the Go runtime: a thread that can take a step does.
Fairness ==
    /\ WF_vars(ListenProgress)
    /\ \A l \in Lives : WF_vars(GoroutineProgress(l))

FairSpec == Spec /\ Fairness

(* ----------------- the backoff calculator on its own ------------------ *)

\* nextRetry is about to be applied to step = reconnectAttempt, for every step
\* in 1..MaxStep
InitRetry ==
    /\ url = "redis://localhost:6379/5"
    /\ sentinelsEnabled = FALSE
    /\ reconnectAttempt \in 1..MaxStep
    /\ pc = "retry"
    /\ startResult = "none"
    /\ err = NoErr
    /\ lret = NoErr
    /\ conn = "none"
    /\ session = 0
    /\ live = 0
    /\ dialOnly = TRUE
    /\ subscribed = FALSE
    /\ unsubscribed = FALSE
    /\ done = [l \in Lives |-> <<>>]
    /\ goroutine = [l \in Lives |-> NoGoroutine]
    /\ tickerRunning = FALSE
    /\ tickPending = FALSE
    /\ delay = 0
    /\ received = <<>>
    /\ handled = <<>>
    /\ sessLog = <<>>
    /\ doneWrites = [l \in Lives |-> 0]
    /\ doneReads = [l \in Lives |-> 0]
    /\ started = FALSE
    /\ firstCall = FALSE
    /\ callListens = 0
    /\ callSleeps = 0
    /\ entryAttempt = 0
    /\ connRole = "none"
    /\ pool = "none"
    /\ sntnl = "none"
    /\ openConns = 0
    /\ confirmed = FALSE

\* redis.go:192-195
ApplyNextRetry ==
    /\ pc = "retry"
    /\ \E r \in RandIntn(reconnectAttempt * 4) :
          delay' = nextRetry(reconnectAttempt, r)
    /\ pc' = "retried"
    /\ UNCHANGED <<config, resources, confirmed, reconnectAttempt, startResult, err,
                   lret, conn, sessVars, dialOnly, chans, goroutine, tickerVars,
                   logs, sessLog, callStats>>

SpecRetry == InitRetry /\ [][ApplyNextRetry]_vars

(* ------------------------------ history -------------------------------- *)

Last(q) == q[Len(q)]

\* the ended sessions since the latest one that subscribed, that one included:
\* the failed sessions in a row with no successful subscribe in between
FailsInRow ==
    LET subs == {i \in 1..Len(sessLog) : sessLog[i].sub}
    IN  IF subs = {} THEN Len(sessLog)
        ELSE Len(sessLog) - (CHOOSE i \in subs : \A j \in subs : j <= i) + 1

\* the payloads of the entries of log q that belong to live session l
PayloadsOf(q, l) ==
    LET own == SelectSeq(q, LAMBDA e : e[1] = l)
    IN  [i \in 1..Len(own) |-> own[i][2]]

\* reconnectAttempt as it was when the latest listen call was entered: what the
\* increment after the session before it left
AttemptAtEntry == IF sessLog = <<>> THEN 0 ELSE Last(sessLog).after

\* none of the n most recently ended sessions subscribed, and there are n
NoneSubscribed(n) ==
    /\ Len(sessLog) >= n
    /\ \A i \in (Len(sessLog) - n + 1)..Len(sessLog) : ~sessLog[i].sub

\* at least one session has ended, and every one that has ended subscribed
AllSubscribed ==
    /\ sessLog # <<>>
    /\ \A i \in 1..Len(sessLog) : sessLog[i].sub

(* ------------------------------- claims -------------------------------- *)

\* C1: Start never returns the 'Redis reconnect attempts exceeded' error after
\* fewer than 5 failed sessions in a row with no successful subscribe in
\* between; in the first call of Start it returns it after exactly 5, and once 5
\* sessions in a row have failed Start is at its ceiling check or has returned
\* that error, so no listen call and no backoff sleep follows.
C1_ExceededAfterFive ==
    /\ startResult = "exceeded" => (FailsInRow >= 5 /\ pc = "idle")
    /\ firstCall =>
          /\ startResult = "exceeded" => FailsInRow = 5
          /\ FailsInRow >= 5 =>
                \/ pc = "check"
                \/ pc = "idle" /\ startResult = "exceeded"

C1_Witness ==
    /\ firstCall
    /\ pc = "idle"
    /\ startResult = "exceeded"
    /\ FailsInRow = 5
    /\ callListens = 5
    /\ callSleeps = 4

\* C2: a successful subscribe sets reconnectAttempt to 0 whatever it was, so a
\* session that subscribed and then failed leaves Start computing its backoff
\* with attempt 1, however many sessions failed before it.
C2_SubscribeResets ==
    /\ pc \in LivePcs => reconnectAttempt = 0
    /\ (pc \in {"check", "sleep"} /\ sessLog # <<>> /\ Last(sessLog).sub) =>
          /\ reconnectAttempt = 1
          /\ pc = "sleep" => \E r \in 0..3 : delay = 1 + (r * 2)

\* 4 failed sessions, then one that subscribed and failed: the backoff is that
\* of attempt 1
C2_Witness ==
    /\ pc = "sleep"
    /\ Len(sessLog) = 5
    /\ \A i \in 1..4 : ~sessLog[i].sub /\ sessLog[i].after = i
    /\ sessLog[5].sub
    /\ reconnectAttempt = 1

\* C3: reconnectAttempt changes only by the increment by exactly 1 that follows
\* every return of listen and by the reset to 0 on a successful subscribe.
C3_CounterSteps ==
    [][/\ (pc = "incr" /\ pc' # "incr") => reconnectAttempt' = reconnectAttempt + 1
       /\ (pc = "subscribe" /\ pc' = "select") => reconnectAttempt' = 0
       /\ reconnectAttempt' # reconnectAttempt =>
             \/ pc = "incr"
             \/ pc = "subscribe" /\ pc' = "select"]_vars

\* 3 dial failures in a row, observed as 1, 2, 3, then a successful subscribe
C3_Witness ==
    /\ pc = "select"
    /\ dialOnly
    /\ Len(sessLog) = 3
    /\ \A i \in 1..3 : sessLog[i].after = i
    /\ reconnectAttempt = 0

\* C4: when a ping fails in the Live phase, listen issues unsubscribe, waits on
\* the done channel and returns an error to Start: it always eventually
\* returns, and the one value it reads from done is what it returns.
C4_PingFailureReturns ==
    /\ [](pc = "wait" => (unsubscribed /\ err.kind = "ping" /\ doneReads[live] = 0))
    /\ (pc = "unsubscribe") ~>
          (pc = "incr" /\ unsubscribed /\ lret.kind = "receive" /\ doneReads[live] = 1)

C4_Witness ==
    /\ pc = "incr"
    /\ unsubscribed
    /\ lret.kind = "receive"
    /\ doneReads[live] = 1

\* C5: when the receive goroutine gets its first error from Receive, listen
\* eventually returns that error to Start, whether or not a tick is pending,
\* reading done once; and once listen has returned the ticker is stopped.
C5_ReceiveErrorReturns ==
    /\ []((pc \notin LivePcs) => ~tickerRunning)
    /\ (pc \in LivePcs /\ goroutine[live].pc = "error" /\ goroutine[live].nerr = 1)
          ~> (pc = "incr" /\ lret = Err("receive", 1) /\ doneReads[live] = 1)

\* the first error of the goroutine was read from done and returned
C5_Witness ==
    /\ pc = "incr"
    /\ lret = Err("receive", 1)
    /\ ~unsubscribed
    /\ ~tickerRunning
    /\ doneReads[live] = 1

\* C6: the done channel of a session is written at most once and read at most
\* once.
C6_DoneOnce ==
    \A l \in Lives : doneWrites[l] <= 1 /\ doneReads[l] <= 1

\* C7: the payloads handed to node.HandlePubsub for a session are the payloads
\* of the message events Receive yielded for it, in the same order, each once
\* and unchanged, but for the one message the goroutine holds between Receive
\* and the call; a subscription event adds no call.
C7_ForwardedInOrder ==
    \A l \in Lives :
        IF goroutine[l].pc = "message"
           THEN PayloadsOf(received, l) = Append(PayloadsOf(handled, l), goroutine[l].ev)
           ELSE PayloadsOf(received, l) = PayloadsOf(handled, l)

\* two messages were forwarded, and a subscription event is being logged
C7_Witness ==
    /\ Len(received) = 2
    /\ handled = received
    /\ handled[1][2] # handled[2][2]
    /\ goroutine[1].pc = "subscription"

\* C8: for every attempt count n >= 1 and every value of the draw, nextRetry(n)
\* is at least n*n seconds and less than n*n + 4*n*(n+1) seconds.
C8_DelayBounds ==
    pc = "retried" =>
        /\ delay >= reconnectAttempt * reconnectAttempt
        /\ delay < (reconnectAttempt * reconnectAttempt)
                      + (4 * reconnectAttempt * (reconnectAttempt + 1))

\* the largest draw for attempt 4: 16 + 15 * 5
C8_Witness == pc = "retried" /\ reconnectAttempt = 4 /\ delay = 91

\* C9: with a malformed URL Start returns the parse error at once: no listen
\* call, no backoff sleep, reconnectAttempt as it was.
C9_MalformedURL ==
    /\ ParseFails(url) =>
          /\ session = 0
          /\ pc \in {"idle", "parse"}
          /\ (pc = "idle" /\ started) => startResult = "parse error"
    /\ startResult = "parse error" =>
          /\ ParseFails(url)
          /\ callListens = 0
          /\ callSleeps = 0
          /\ reconnectAttempt = entryAttempt

C9_Witness ==
    /\ url = "not a url \\x00"
    /\ pc = "idle"
    /\ startResult = "parse error"

\* C10: every return of listen carries an error, never nil.
C10_ListenReturnsError ==
    pc = "incr" => (lret # NoErr /\ lret.kind \in {"dial", "subscribe", "receive"})

\* the return on the done case of the select
C10_Witness ==
    /\ pc = "incr"
    /\ subscribed
    /\ ~unsubscribed
    /\ lret.kind = "receive"

\* C11: in a call of Start every failed session that leaves the counter below
\* the ceiling is followed by one backoff sleep, whose delay nextRetry computed
\* on the incremented attempt count, and the sleep by one new listen call; no
\* sleep comes before the first listen call of the call, and none between the
\* last failed session and the return of the exceeded error.
C11_BackoffBetweenSessions ==
    /\ [](pc = "listen" => callSleeps = callListens)
    /\ [](pc \in ({"subscribe", "incr", "check"} \cup LivePcs) =>
              callSleeps = callListens - 1)
    /\ [](pc = "sleep" =>
              /\ callSleeps = callListens
              /\ reconnectAttempt \in 1..4
              /\ \E r \in 0..((4 * reconnectAttempt) - 1) :
                    delay = (reconnectAttempt * reconnectAttempt)
                               + (r * (reconnectAttempt + 1)))
    /\ [](startResult = "exceeded" => callSleeps = callListens - 1)
    /\ [][/\ (pc = "check" /\ pc' # "check") =>
                pc' = IF reconnectAttempt >= 5 THEN "idle" ELSE "sleep"
          /\ (pc = "sleep" /\ pc' # "sleep") => (pc' = "listen" /\ session' = session)
          /\ (pc = "listen" /\ pc' # "listen") => session' = session + 1]_vars

\* the third failed session of a call is followed by the third sleep, with the
\* largest delay of attempt 3: 9 + 11 * 4
C11_Witness ==
    /\ pc = "sleep"
    /\ callListens = 3
    /\ callSleeps = 3
    /\ reconnectAttempt = 3
    /\ delay = 53

\* C12: in sentinel mode every connection pool.Get hands to the session, and so
\* the one the session subscribes on, has passed the primary-role check.
C12_RoleChecked ==
    (sentinelsEnabled /\ conn = "open" /\ pc \in ({"subscribe"} \cup LivePcs)) =>
        TestOnBorrow(connRole)

\* C13: the receive goroutine of a session stops at its first error event: once
\* it has written that error to done it takes no further step (no Receive call,
\* no write), and it is never blocked on a full done channel.
C13_StopsAtFirstError ==
    /\ [][\A l \in Lives :
             doneWrites[l] >= 1 =>
                 (goroutine'[l] = goroutine[l] /\ doneWrites'[l] = doneWrites[l])]_vars
    /\ [](\A l \in Lives :
             ~(goroutine[l].pc = "error" /\ Len(done[l]) >= doneCapacity))

\* C14: a session is made live (the counter reset, the receive goroutine and
\* the ticker started) only once a subscription event has been received for
\* it: while none has been, the ticker is not running and the counter is what
\* it was when listen was entered, and so it is when such a session ends.
C14_LiveAfterConfirmation ==
    /\ tickerRunning => confirmed
    /\ (pc \in (LivePcs \cup {"incr"}) /\ ~confirmed) =>
          reconnectAttempt = AttemptAtEntry

\* C15: every connection a session obtained is closed when listen returns, on
\* every path, and in sentinel mode the pool and the sentinel client are
\* released too; at most one connection is held at any moment, and outside a
\* running listen call (so during the backoff sleep) none is.
C15_Released ==
    /\ openConns <= 1
    /\ pc \notin ({"subscribe"} \cup LivePcs) =>
          /\ openConns = 0
          /\ ~Held(conn)
          /\ pool # "open"
          /\ sntnl # "open"
    /\ (pc = "incr" /\ lret.kind # "dial") =>
          /\ conn = "closed"
          /\ sentinelsEnabled => (pool = "closed" /\ sntnl = "closed")

\* sentinel mode, in the sleep after a session that failed to subscribe and one
\* that was live: nothing is held
C15_Witness ==
    /\ pc = "sleep"
    /\ sentinelsEnabled
    /\ Len(sessLog) = 2
    /\ ~sessLog[1].sub
    /\ sessLog[2].sub
    /\ openConns = 0
    /\ pool = "closed"
    /\ sntnl = "closed"

\* C16: nextRetry is never called with attempt 0: the attempt count it is
\* called with, which is reconnectAttempt during the sleep that follows, is in
\* 1..4, and reconnectAttempt stays within 0..5 in every state.
C16_AttemptRange ==
    /\ pc = "sleep" => reconnectAttempt \in 1..4
    /\ reconnectAttempt \in 0..5

\* C17: once Start has returned the exceeded error, a later call of Start on
\* the same subscriber makes no session attempt: no listen call, no connection.
\* With a well-formed URL a call that is not the first one comes after that
\* return, the only one Start has.
C17_NotRestartable ==
    (started /\ ~firstCall /\ ~ParseFails(url)) =>
        (callListens = 0 /\ openConns = 0)

\* C18: a session that fails while connecting or subscribing returns that error
\* at once and changes nothing else: listen leaves reconnectAttempt as it is,
\* starts no receive goroutine, makes no done channel, starts no ticker, issues
\* no unsubscribe and calls no handler, and holds no connection afterwards.
C18_EarlyFailureFrame ==
    /\ [](pc = "subscribe" =>
              (~subscribed /\ ~unsubscribed /\ ~tickerRunning
                  /\ reconnectAttempt = AttemptAtEntry))
    /\ [][(pc \in {"listen", "subscribe"} /\ pc' = "incr") =>
              /\ lret'.kind = IF pc = "listen" THEN "dial" ELSE "subscribe"
              /\ reconnectAttempt' = reconnectAttempt
              /\ live' = live
              /\ goroutine' = goroutine
              /\ done' = done
              /\ handled' = handled
              /\ ~subscribed'
              /\ ~unsubscribed'
              /\ ~tickerRunning'
              /\ ~Held(conn')]_vars

\* a subscribe failure after 2 failed sessions: the counter is still 2
C18_Witness ==
    /\ pc = "incr"
    /\ lret.kind = "subscribe"
    /\ ~subscribed
    /\ AttemptAtEntry = 2
    /\ reconnectAttempt = 2

C20_NoHandlerAfterReturn ==
    [][handled' # handled =>
          (pc \in LivePcs /\ Last(handled')[1] = live)]_vars

====
